---- MODULE Spec2Model ----
(***************************************************************************)
(* Model of the solar-potential pipeline of solar_roi_france.py            *)
(* (evaluate_address and the functions it sequences) and of the Streamlit  *)
(* script app.py that calls it and keeps its outcome in session_state.     *)
(*                                                                         *)
(* Floats are modelled as exact rationals [n, d] in lowest terms, d > 0.   *)
(* Optional values (Python None) are sequences: None is << >>, a value v   *)
(* is << v >>.                                                             *)
(***************************************************************************)
EXTENDS Integers, Sequences, FiniteSets, TLC

VARIABLES
    house_answer,    \* app.py: the radio "Do you live in a house?"
    results,         \* st.session_state["results"]
    error_message,   \* st.session_state["error_message"]
    display,         \* what the last script run rendered
    crashed,         \* uncaught exception that aborted the last script run
    pc,              \* position of the running script / of evaluate_address
    address,         \* text input handed to evaluate_address
    loc,             \* local variables of evaluate_address
    raised,          \* exception propagating out of evaluate_address
    calls,           \* pipeline functions entered by this evaluate_address run
    ext,             \* external service requests made by this run
    osm_resp,        \* what the footprint service answered in this run
    nasa_resp,       \* what the irradiance service answered in this run
    calc             \* inputs and outputs of a directly applied pure function

vars == <<house_answer, results, error_message, display, crashed, pc, address,
          loc, raised, calls, ext, osm_resp, nasa_resp, calc>>

-----------------------------------------------------------------------------
(* Bounds of the model *)

\* longest feature list the footprint service answers with
MaxFeatures == 3
\* longest daily series the irradiance service answers with
MaxSeries == 2

-----------------------------------------------------------------------------
(* Optional values and exact rational arithmetic *)

None == << >>
Some(v) == << v >>

Abs(x) == IF x < 0 THEN -x ELSE x

RECURSIVE GCD(_, _)
GCD(a, b) == IF b = 0 THEN a ELSE GCD(b, a % b)

\* the rational n/d in lowest terms with a positive denominator (d # 0)
R(n, d) ==
    LET g == GCD(Abs(n), Abs(d))
        s == IF d < 0 THEN -1 ELSE 1
    IN  [n |-> s * (n \div g), d |-> s * (d \div g)]

RInt(k) == [n |-> k, d |-> 1]

\* product of two rationals in lowest terms, cancelling before multiplying
RMul(a, b) ==
    LET g1 == GCD(Abs(a.n), b.d)
        g2 == GCD(Abs(b.n), a.d)
    IN  [n |-> (a.n \div g1) * (b.n \div g2), d |-> (a.d \div g2) * (b.d \div g1)]

\* quotient a / b of two rationals, b # 0
RDiv(a, b) == RMul(a, R(b.d, b.n))

RLess(a, b) == a.n * b.d < b.n * a.d
RLeq(a, b) == a.n * b.d <= b.n * a.d
RPos(a) == a.n > 0

RECURSIVE SumSeq(_)
SumSeq(s) == IF s = << >> THEN 0 ELSE Head(s) + SumSeq(Tail(s))

-----------------------------------------------------------------------------
(* Exceptions: the Python class and the message the code gives it *)

Exc(type, msg) == [type |-> type, msg |-> msg]

-----------------------------------------------------------------------------
(* The outside world: the geocoder, the OSM footprint service, NASA POWER. *)
(* Coordinates are in grid degrees; one grid degree projects to 10 m.      *)

Addresses == {"rue des Peupliers", "rue de Rivoli", "nowhere"}

\* ox.geocode(query): the coordinate of a known address, None when it raises
Geocoder(query) ==
    CASE query = <<"rue des Peupliers", ", France">> -> Some([lat |-> 0, lon |-> 0])
      [] query = <<"rue de Rivoli", ", France">>     -> Some([lat |-> 0, lon |-> 3])
      [] OTHER                                        -> None

\* OSM features tagged building: axis-parallel footprints lon x1..x2, lat y1..y2
Feature(id, type, x1, x2, y1, y2) ==
    [id |-> id, type |-> type, x1 |-> x1, x2 |-> x2, y1 |-> y1, y2 |-> y2]

FeatureCatalogue ==
    { Feature(1, "Polygon", 1, 2, 0, 1),
      Feature(2, "Polygon", -2, -1, 0, 1),
      Feature(3, "Polygon", 6, 8, 0, 1),
      Feature(4, "Point", 0, 0, 0, 0),
      Feature(5, "MultiPolygon", -3, 0, 2, 5) }

\* feature lists without repeated OSM ids, of length 1..MaxFeatures
FeatureLists ==
    UNION { { s \in [1..k -> FeatureCatalogue] :
                \A i, j \in 1..k : i # j => s[i].id # s[j].id } : k \in 1..MaxFeatures }

\* answers of features.features_from_point: an exception, or a feature list
OsmResponses ==
    { [kind |-> "raise", exc |-> e, features |-> << >>] :
        e \in {"ConnectionError", "InsufficientResponseError"} }
    \cup { [kind |-> "ok", exc |-> "", features |-> s] : s \in FeatureLists }

NasaValues == {-999, 2, 4}

\* answers of requests.get(...) followed by r.json()
NasaResponses ==
    { [kind |-> k, values |-> << >>] : k \in {"timeout", "bad_json", "no_key"} }
    \cup { [kind |-> "series", values |-> s] :
             s \in UNION { [1..k -> NasaValues] : k \in 0..MaxSeries } }

-----------------------------------------------------------------------------
(* solar_roi_france.py: constants *)

COST_PER_KW == 1600
ELECTRICITY_PRICE == R(20, 100)
SYSTEM_LIFETIME == 20
COVERAGE_RATIO == R(6, 10)
PANEL_EFFICIENCY == R(18, 100)
PERFORMANCE_RATIO == R(75, 100)

-----------------------------------------------------------------------------
(* Geometry in the projected metric frame (EPSG:2154, metres) *)

\* projection.project_geometry / project_gdf: grid degrees to metres
project_x(lon) == 700 + 10 * lon
project_y(lat) == 6600 + 10 * lat

project_gdf(gdf) ==
    [i \in DOMAIN gdf |->
        [gdf[i] EXCEPT !.x1 = project_x(@), !.x2 = project_x(@),
                       !.y1 = project_y(@), !.y2 = project_y(@)]]

Max(a, b) == IF a >= b THEN a ELSE b

Gap(lo1, hi1, lo2, hi2) == Max(0, Max(lo1 - hi2, lo2 - hi1))

\* squared shapely distance between two footprints (0 when they touch)
distance2(g, h) ==
    LET dx == Gap(g.x1, g.x2, h.x1, h.x2)
        dy == Gap(g.y1, g.y2, h.y1, h.y2)
    IN  dx * dx + dy * dy

point_geom(x, y) == [x1 |-> x, x2 |-> x, y1 |-> y, y2 |-> y]

area(g) == (g.x2 - g.x1) * (g.y2 - g.y1)
perimeter(g) == 2 * ((g.x2 - g.x1) + (g.y2 - g.y1))

\* area of geom.buffer(m): the footprint, a band of width m along its sides and
\* four quarter discs, each drawn by shapely as 16 segments (a 64-gon in all)
buffer_area(g, m) == area(g) + perimeter(g) * m + (31365 * m * m) \div 10000

-----------------------------------------------------------------------------
(* Pipeline functions *)

\* geocode_address: (lat, lon), or the RuntimeError it turns any failure into
geocode_address(addr) ==
    LET got == Geocoder(<<addr, ", France">>)
    IN  IF got # None
        THEN [raised |-> None, point |-> got]
        ELSE [raised |-> Some(Exc("RuntimeError", "Impossible de geocoder l'adresse")),
              point |-> None]

IsPolygonal(f) == f.type \in {"Polygon", "MultiPolygon"}

\* get_buildings_around: the service's exception propagates; otherwise the
\* polygonal features (possibly none)
get_buildings_around(resp) ==
    IF resp.kind = "raise"
    THEN [raised |-> Some(Exc(resp.exc, "features_from_point")), buildings |-> << >>]
    ELSE [raised |-> None, buildings |-> SelectSeq(resp.features, IsPolygonal)]

\* Series.idxmin: position of the first minimum, by a left-to-right scan
RECURSIVE argmin_scan(_, _, _)
argmin_scan(d, i, best) ==
    IF i > Len(d) THEN best
    ELSE argmin_scan(d, i + 1, IF d[i] < d[best] THEN i ELSE best)

\* mutant of idxmin: the scan keeps the last minimum instead of the first
RECURSIVE argmin_scan_last(_, _, _)
argmin_scan_last(d, i, best) ==
    IF i > Len(d) THEN best
    ELSE argmin_scan_last(d, i + 1, IF d[i] <= d[best] THEN i ELSE best)

idxmin_last(d) == argmin_scan_last(d, 2, 1)

idxmin(d) == argmin_scan(d, 2, 1)

\* select_roof_and_project: (roof as a 1-row frame, buildings_proj), or ValueError
select_roof_and_project(buildings_gdf, lat, lon) ==
    IF buildings_gdf = << >>
    THEN [raised |-> Some(Exc("ValueError", "Aucun batiment trouve a proximite de l'adresse.")),
          roof |-> << >>, buildings_proj |-> << >>]
    ELSE LET buildings_proj == project_gdf(buildings_gdf)
             user_pt_proj == point_geom(project_x(lon), project_y(lat))
             distances == [i \in DOMAIN buildings_proj |->
                              distance2(buildings_proj[i], user_pt_proj)]
             idx_min == buildings_proj[idxmin(distances)].id
             HasLabel(row) == row.id = idx_min
         IN  [raised |-> None,
              roof |-> SelectSeq(buildings_proj, HasLabel),
              buildings_proj |-> buildings_proj]

RECURSIVE area_sum(_)
area_sum(gdf) == IF gdf = << >> THEN 0 ELSE area(Head(gdf)) + area_sum(Tail(gdf))

\* mutant of compute_shade_factor: the roof's own area is not taken off the sum
compute_shade_factor_own(buildings_proj, roof, buffer_m) ==
    LET roof_geom == roof[1]
        buf_area == buffer_area(roof_geom, buffer_m)
        Intersects(b) == distance2(b, roof_geom) <= buffer_m * buffer_m
        neighbors == SelectSeq(buildings_proj, Intersects)
        ratio == R(Max(area_sum(neighbors), 0), buf_area)
    IN  IF RLess(ratio, R(1, 10)) THEN R(100, 100)
        ELSE IF RLess(ratio, R(25, 100)) THEN R(90, 100)
        ELSE IF RLess(ratio, R(40, 100)) THEN R(80, 100)
        ELSE R(65, 100)

\* compute_shade_factor
compute_shade_factor(buildings_proj, roof, buffer_m) ==
    LET roof_geom == roof[1]
        buf_area == buffer_area(roof_geom, buffer_m)
        Intersects(b) == distance2(b, roof_geom) <= buffer_m * buffer_m
        neighbors == SelectSeq(buildings_proj, Intersects)
        built_area == Max(area_sum(neighbors) - area(roof_geom), 0)
        ratio == R(built_area, buf_area)
    IN  IF RLess(ratio, R(1, 10)) THEN R(100, 100)
        ELSE IF RLess(ratio, R(25, 100)) THEN R(90, 100)
        ELSE IF RLess(ratio, R(40, 100)) THEN R(80, 100)
        ELSE R(65, 100)

\* get_solar_irradiance: the request and r.json() are outside the try block
get_solar_irradiance(resp) ==
    IF resp.kind = "timeout"
    THEN [raised |-> Some(Exc("Timeout", "requests.get")), value |-> None]
    ELSE IF resp.kind = "bad_json"
    THEN [raised |-> Some(Exc("JSONDecodeError", "r.json")), value |-> None]
    ELSE IF resp.kind = "no_key" \/ resp.values = << >>
    THEN [raised |-> None, value |-> Some(R(38, 10))]
    ELSE [raised |-> None, value |-> Some(R(SumSeq(resp.values), Len(resp.values)))]

\* mutant of estimate_yearly_production: the daily irradiance is not annualised
estimate_yearly_production_daily(area_m2, irr_daily, shade_factor, orientation_factor) ==
    LET panel_area == RMul(area_m2, COVERAGE_RATIO)
        effective_irradiance == RMul(RMul(irr_daily, shade_factor), orientation_factor)
    IN  RMul(RMul(RMul(panel_area, effective_irradiance), PANEL_EFFICIENCY),
             PERFORMANCE_RATIO)

\* estimate_yearly_production
estimate_yearly_production(area_m2, irr_daily, shade_factor, orientation_factor) ==
    LET annual_irradiance == RMul(irr_daily, RInt(365))
        panel_area == RMul(area_m2, COVERAGE_RATIO)
        effective_irradiance ==
            RMul(RMul(annual_irradiance, shade_factor), orientation_factor)
    IN  RMul(RMul(RMul(panel_area, effective_irradiance), PANEL_EFFICIENCY),
             PERFORMANCE_RATIO)

\* mutant of economic_analysis: the payback quotient is inverted
economic_analysis_inverted(annual_energy_kwh, area_m2) ==
    IF ~RPos(annual_energy_kwh) \/ ~RPos(area_m2)
    THEN <<None, None, "Non viable">>
    ELSE LET investment ==
                 RMul(RDiv(RMul(area_m2, COVERAGE_RATIO), R(55, 10)), RInt(COST_PER_KW))
             annual_savings == RMul(annual_energy_kwh, ELECTRICITY_PRICE)
         IN  <<Some(investment), Some(RDiv(annual_savings, investment)), "Tres interessant">>

\* mutant of economic_analysis: a payback of exactly 8 years counts as below 8
economic_analysis_le8(annual_energy_kwh, area_m2) ==
    IF ~RPos(annual_energy_kwh) \/ ~RPos(area_m2)
    THEN <<None, None, "Non viable">>
    ELSE LET investment ==
                 RMul(RDiv(RMul(area_m2, COVERAGE_RATIO), R(55, 10)), RInt(COST_PER_KW))
             annual_savings == RMul(annual_energy_kwh, ELECTRICITY_PRICE)
             payback == RDiv(investment, annual_savings)
             label ==
                 IF RLess(RInt(SYSTEM_LIFETIME), payback)
                 THEN "Peu interessant financierement"
                 ELSE IF RLeq(payback, RInt(8)) THEN "Tres interessant"
                 ELSE IF RLeq(payback, RInt(12)) THEN "Interessant"
                 ELSE "Acceptable"
         IN  <<Some(investment), Some(payback), label>>

\* economic_analysis: <<investment, payback, label>>
economic_analysis(annual_energy_kwh, area_m2) ==
    IF ~RPos(annual_energy_kwh) \/ ~RPos(area_m2)
    THEN <<None, None, "Non viable">>
    ELSE LET panel_area == RMul(area_m2, COVERAGE_RATIO)
             kwp_installed == RDiv(panel_area, R(55, 10))
             investment == RMul(kwp_installed, RInt(COST_PER_KW))
             annual_savings == RMul(annual_energy_kwh, ELECTRICITY_PRICE)
             payback == IF ~RPos(annual_savings) THEN None
                        ELSE Some(RDiv(investment, annual_savings))
             label ==
                 IF payback = None \/ RLess(RInt(SYSTEM_LIFETIME), payback[1])
                 THEN "Peu interessant financierement"
                 ELSE IF RLess(payback[1], RInt(8)) THEN "Tres interessant"
                 ELSE IF RLeq(payback[1], RInt(12)) THEN "Interessant"
                 ELSE IF RLeq(payback[1], RInt(20)) THEN "Acceptable"
                 ELSE "Peu interessant financierement"
         IN  <<Some(investment), payback, label>>

-----------------------------------------------------------------------------
(* app.py: constants and the dashboard recomputation *)

CO2_PER_KWH == R(217, 10000)
APP_ELECTRICITY_PRICE == R(1952, 10000)

\* keys of the result that the success branch reads outside any try block
DashboardKeys == {"coverage_ratio", "exploitable_m2", "kwp", "irr_annual", "area_m2"}

\* app.py lines 113-133, for a result res and a slider position in percent
dashboard(res, coverage_slider) ==
    LET panel_fraction == R(coverage_slider, 100)
        exploitable == RMul(res.exploitable_m2, panel_fraction)
        kwp == RMul(res.kwp, panel_fraction)
        irr == res.irr_annual
        energy == RMul(RMul(kwp, irr), R(75, 100))
        savings == RMul(energy, APP_ELECTRICITY_PRICE)
        cost_avg == RMul(exploitable, RInt(575))
    IN  [effective_coverage_ratio |-> RMul(res.coverage_ratio, panel_fraction),
         exploitable |-> exploitable, kwp |-> kwp, energy |-> energy,
         co2_kg |-> RMul(energy, CO2_PER_KWH),
         savings |-> savings, cost_avg |-> cost_avg,
         payback_years |-> IF RPos(savings) THEN Some(RDiv(cost_avg, savings))
                           ELSE None]

-----------------------------------------------------------------------------
(* State machine: the Streamlit script and the evaluate_address it runs *)

EmptyLoc ==
    [point |-> None, buildings |-> None, sel |-> None, area_m2 |-> None,
     shade |-> None, irr_daily |-> None, annual_energy |-> None, econ |-> None]

NoCalc == [fn |-> "none"]

\* the state once the page has loaded: the script ran once with the defaults
Init ==
    /\ house_answer = "Yes"
    /\ results = None
    /\ error_message = None
    /\ display = "none"
    /\ crashed = None
    /\ pc = "idle"
    /\ address = "rue des Peupliers"
    /\ loc = EmptyLoc
    /\ raised = None
    /\ calls = << >>
    /\ ext = << >>
    /\ osm_resp = None
    /\ nasa_resp = None
    /\ calc = NoCalc

evalVars == <<loc, raised, calls, ext, osm_resp, nasa_resp>>
sessionVars == <<results, error_message>>

\* the radio is changed: the script reruns, and stops at once on "No"
ChooseHouse ==
    /\ pc = "idle"
    /\ \E ans \in {"Yes", "No"} :
        /\ ans # house_answer
        /\ house_answer' = ans
        /\ IF ans = "No"
           THEN display' = "stopped" /\ crashed' = None /\ pc' = "idle"
           ELSE pc' = "render" /\ UNCHANGED <<display, crashed>>
    /\ UNCHANGED <<sessionVars, address, evalVars, calc>>

\* the address box is edited: the script reruns without a click
EditAddress ==
    /\ pc = "idle" /\ house_answer = "Yes"
    /\ \E a \in Addresses : a # address /\ address' = a
    /\ pc' = "render"
    /\ UNCHANGED <<house_answer, sessionVars, display, crashed, evalVars, calc>>

\* mutant of ClickAnalyze: the two session entries are not cleared
ClickAnalyze_keeps ==
    /\ pc = "idle" /\ house_answer = "Yes"
    /\ pc' = "geocode"
    /\ display' = "spinner"
    /\ crashed' = None
    /\ loc' = EmptyLoc
    /\ raised' = None
    /\ calls' = << >>
    /\ ext' = << >>
    /\ osm_resp' = None
    /\ nasa_resp' = None
    /\ UNCHANGED <<house_answer, results, error_message, address, calc>>

\* the Analyze button: both session entries are cleared, evaluate_address starts
ClickAnalyze ==
    /\ pc = "idle" /\ house_answer = "Yes"
    /\ results' = None
    /\ error_message' = None
    /\ pc' = "geocode"
    /\ display' = "spinner"
    /\ crashed' = None
    /\ loc' = EmptyLoc
    /\ raised' = None
    /\ calls' = << >>
    /\ ext' = << >>
    /\ osm_resp' = None
    /\ nasa_resp' = None
    /\ UNCHANGED <<house_answer, address, calc>>

\* mutant of Geocode: a failed geocoding request is made a second time
Geocode_retry ==
    /\ pc = "geocode"
    /\ calls' = Append(calls, "geocode_address")
    /\ LET r == geocode_address(address)
       IN  IF r.raised # None
           THEN /\ ext' = ext \o <<"geocoding", "geocoding">>
                /\ raised' = r.raised /\ pc' = "except" /\ UNCHANGED loc
           ELSE /\ ext' = Append(ext, "geocoding")
                /\ loc' = [loc EXCEPT !.point = r.point] /\ pc' = "fetch"
                /\ UNCHANGED raised
    /\ UNCHANGED <<house_answer, sessionVars, display, crashed, address,
                   osm_resp, nasa_resp, calc>>

\* evaluate_address, 1) geocoding
Geocode ==
    /\ pc = "geocode"
    /\ calls' = Append(calls, "geocode_address")
    /\ ext' = Append(ext, "geocoding")
    /\ LET r == geocode_address(address)
       IN  IF r.raised # None
           THEN raised' = r.raised /\ pc' = "except" /\ UNCHANGED loc
           ELSE loc' = [loc EXCEPT !.point = r.point] /\ pc' = "fetch"
                /\ UNCHANGED raised
    /\ UNCHANGED <<house_answer, sessionVars, display, crashed, address,
                   osm_resp, nasa_resp, calc>>

\* evaluate_address, 2) the footprint request
FetchBuildings ==
    /\ pc = "fetch"
    /\ calls' = Append(calls, "get_buildings_around")
    /\ ext' = Append(ext, "footprint")
    /\ \E resp \in OsmResponses :
        /\ osm_resp' = Some(resp)
        /\ LET r == get_buildings_around(resp)
           IN  IF r.raised # None
               THEN raised' = r.raised /\ pc' = "except" /\ UNCHANGED loc
               ELSE loc' = [loc EXCEPT !.buildings = Some(r.buildings)]
                    /\ pc' = "select" /\ UNCHANGED raised
    /\ UNCHANGED <<house_answer, sessionVars, display, crashed, address,
                   nasa_resp, calc>>

\* mutant of SelectRoof: evaluate_address does not test for emptiness itself
SelectRoof_untested ==
    /\ pc = "select"
    /\ calls' = Append(calls, "select_roof_and_project")
    /\ LET r == select_roof_and_project(loc.buildings[1],
                                        loc.point[1].lat, loc.point[1].lon)
       IN  IF r.raised # None
           THEN raised' = r.raised /\ pc' = "except" /\ UNCHANGED loc
           ELSE /\ loc' = [loc EXCEPT
                            !.sel = Some([roof |-> r.roof,
                                          buildings_proj |-> r.buildings_proj]),
                            !.area_m2 = Some(RInt(area(r.roof[1])))]
                /\ pc' = "shade"
                /\ UNCHANGED raised
    /\ UNCHANGED <<house_answer, sessionVars, display, crashed, address, ext,
                   osm_resp, nasa_resp, calc>>

\* evaluate_address, the emptiness test and the roof selection
SelectRoof ==
    /\ pc = "select"
    /\ IF loc.buildings[1] = << >>
       THEN /\ raised' = Some(Exc("RuntimeError", "Aucun batiment trouve a proximite."))
            /\ pc' = "except"
            /\ UNCHANGED <<loc, calls>>
       ELSE /\ calls' = Append(calls, "select_roof_and_project")
            /\ LET r == select_roof_and_project(loc.buildings[1],
                                                loc.point[1].lat, loc.point[1].lon)
               IN  IF r.raised # None
                   THEN raised' = r.raised /\ pc' = "except" /\ UNCHANGED loc
                   ELSE /\ loc' = [loc EXCEPT
                                    !.sel = Some([roof |-> r.roof,
                                                  buildings_proj |-> r.buildings_proj]),
                                    !.area_m2 = Some(RInt(area(r.roof[1])))]
                        /\ pc' = "shade"
                        /\ UNCHANGED raised
    /\ UNCHANGED <<house_answer, sessionVars, display, crashed, address, ext,
                   osm_resp, nasa_resp, calc>>

\* evaluate_address, 3) the shade factor
Shade ==
    /\ pc = "shade"
    /\ calls' = Append(calls, "compute_shade_factor")
    /\ loc' = [loc EXCEPT !.shade =
                 Some(compute_shade_factor(loc.sel[1].buildings_proj, loc.sel[1].roof, 40))]
    /\ pc' = "irradiance"
    /\ UNCHANGED <<house_answer, sessionVars, display, crashed, address, raised,
                   ext, osm_resp, nasa_resp, calc>>

\* evaluate_address, 4) the irradiance request
Irradiance ==
    /\ pc = "irradiance"
    /\ calls' = Append(calls, "get_solar_irradiance")
    /\ ext' = Append(ext, "irradiance")
    /\ \E resp \in NasaResponses :
        /\ nasa_resp' = Some(resp)
        /\ LET r == get_solar_irradiance(resp)
           IN  IF r.raised # None
               THEN raised' = r.raised /\ pc' = "except" /\ UNCHANGED loc
               ELSE loc' = [loc EXCEPT !.irr_daily = r.value]
                    /\ pc' = "yield" /\ UNCHANGED raised
    /\ UNCHANGED <<house_answer, sessionVars, display, crashed, address,
                   osm_resp, calc>>

\* evaluate_address, 5) the yearly production
Yield ==
    /\ pc = "yield"
    /\ calls' = Append(calls, "estimate_yearly_production")
    /\ loc' = [loc EXCEPT !.annual_energy =
                 Some(estimate_yearly_production(loc.area_m2[1], loc.irr_daily[1],
                                                 loc.shade[1], R(9, 10)))]
    /\ pc' = "economics"
    /\ UNCHANGED <<house_answer, sessionVars, display, crashed, address, raised,
                   ext, osm_resp, nasa_resp, calc>>

\* evaluate_address, 6) the economics
Economics ==
    /\ pc = "economics"
    /\ calls' = Append(calls, "economic_analysis")
    /\ loc' = [loc EXCEPT !.econ =
                 Some(economic_analysis(loc.annual_energy[1], loc.area_m2[1]))]
    /\ pc' = "return"
    /\ UNCHANGED <<house_answer, sessionVars, display, crashed, address, raised,
                   ext, osm_resp, nasa_resp, calc>>

\* the dict evaluate_address returns
result_record(l) ==
    [lat |-> l.point[1].lat,
     lon |-> l.point[1].lon,
     area_m2 |-> l.area_m2[1],
     shade_factor |-> l.shade[1],
     irradiance_daily_kwh_m2 |-> l.irr_daily[1],
     annual_energy_kwh |-> l.annual_energy[1],
     investment_eur |-> l.econ[1][1],
     payback_years |-> l.econ[1][2],
     decision |-> l.econ[1][3]]

\* evaluate_address returns, and the script stores the result
Return ==
    /\ pc = "return"
    /\ results' = Some(result_record(loc))
    /\ pc' = "render"
    /\ UNCHANGED <<house_answer, error_message, display, crashed, address,
                   evalVars, calc>>

\* except Exception as e: the script stores the message
Except ==
    /\ pc = "except"
    /\ error_message' =
         Some([text |-> "Oops! Analysis failed for this address.",
               details |-> raised[1].msg])
    /\ pc' = "render"
    /\ UNCHANGED <<house_answer, results, display, crashed, address, evalVars, calc>>

\* the end of the script: one of the three displays
Render ==
    /\ pc = "render"
    /\ IF error_message # None
       THEN display' = "error" /\ crashed' = None
       ELSE IF results # None
       THEN /\ display' = "success"
            /\ crashed' = IF DashboardKeys \subseteq DOMAIN results[1]
                          THEN None
                          ELSE Some(Exc("KeyError",
                                        CHOOSE k \in DashboardKeys :
                                            k \notin DOMAIN results[1]))
       ELSE display' = "none" /\ crashed' = None
    /\ pc' = "idle"
    /\ UNCHANGED <<house_answer, sessionVars, address, evalVars, calc>>

Next ==
    \/ ChooseHouse
    \/ EditAddress
    \/ ClickAnalyze
    \/ Geocode
    \/ FetchBuildings
    \/ SelectRoof
    \/ Shade
    \/ Irradiance
    \/ Yield
    \/ Economics
    \/ Return
    \/ Except
    \/ Render

Spec == Init /\ [][Next]_vars

-----------------------------------------------------------------------------
(* The pure functions applied directly to drawn arguments *)

EnergyInputs ==
    {R(-500, 1), R(0, 1), R(1, 3), R(400, 1), R(480, 1), R(600, 1), R(800, 1),
     R(1000, 1), R(1200, 1), R(9100107, 100)}
AreaInputs == {R(-100, 1), R(0, 1), R(11, 1), R(25, 2), R(100, 1), R(900, 1)}

ApplyEconomicAnalysis ==
    /\ \E e \in EnergyInputs, a \in AreaInputs :
         calc' = [fn |-> "economic_analysis", annual_energy_kwh |-> e, area_m2 |-> a,
                  out |-> economic_analysis(e, a)]
    /\ UNCHANGED <<house_answer, sessionVars, display, crashed, pc, address, evalVars>>

SliderPositions == { 5 * k : k \in 0..20 }

DashboardResults ==
    [coverage_ratio : {R(1, 2)},
     exploitable_m2 : {R(0, 1), R(50, 1), R(120, 1)},
     kwp : {R(0, 1), R(10, 1), R(24, 1)},
     irr_annual : {R(-100, 1), R(0, 1), R(1387, 1)},
     area_m2 : {R(100, 1)}]

ApplyDashboard ==
    /\ \E res \in DashboardResults, coverage_slider \in SliderPositions :
         calc' = [fn |-> "dashboard", res |-> res, coverage_slider |-> coverage_slider,
                  out |-> dashboard(res, coverage_slider)]
    /\ UNCHANGED <<house_answer, sessionVars, display, crashed, pc, address, evalVars>>

\* projected footprints around a 2 m x 11 m roof (id 1, buffer area 6080 m2):
\* areas 570, 608, 1520 and 2432 m2 within 40 m of it, and one 98 m away
ShadeCatalogue ==
    { Feature(1, "Polygon", 700, 702, 6600, 6611),
      Feature(2, "Polygon", 700, 715, 6640, 6678),
      Feature(3, "Polygon", 710, 726, 6600, 6638),
      Feature(4, "Polygon", 650, 690, 6600, 6638),
      Feature(5, "Polygon", 680, 744, 6550, 6588),
      Feature(6, "Polygon", 800, 810, 6600, 6610) }

\* the rows of a frame holding the footprints S, in OSM id order
RECURSIVE FrameOf(_)
FrameOf(S) ==
    IF S = {} THEN << >>
    ELSE LET first == CHOOSE f \in S : \A g \in S : f.id <= g.id
         IN  <<first>> \o FrameOf(S \ {first})

\* arguments of compute_shade_factor: a frame and one of its rows as the roof
ShadeInputs ==
    { [buildings_proj |-> FrameOf(S), roof |-> <<r>>] :
        <<S, r>> \in { sr \in (SUBSET ShadeCatalogue) \X ShadeCatalogue :
                         sr[2] \in sr[1] } }

ApplyShadeFactor ==
    /\ \E in \in ShadeInputs :
         calc' = [fn |-> "compute_shade_factor", buildings_proj |-> in.buildings_proj,
                  roof |-> in.roof,
                  out |-> compute_shade_factor(in.buildings_proj, in.roof, 40)]
    /\ UNCHANGED <<house_answer, sessionVars, display, crashed, pc, address, evalVars>>

NextCalc ==
    \/ ApplyEconomicAnalysis
    \/ ApplyDashboard
    \/ ApplyShadeFactor

SpecCalc == Init /\ [][NextCalc]_vars

-----------------------------------------------------------------------------
(* Properties *)

IsPrefix(s, t) == Len(s) <= Len(t) /\ \A i \in 1..Len(s) : s[i] = t[i]

RECURSIVE RProd(_)
RProd(s) == IF s = << >> THEN RInt(1) ELSE RMul(Head(s), RProd(Tail(s)))

\* the projected query point of the running evaluation
UserPoint == point_geom(project_x(loc.point[1].lon), project_y(loc.point[1].lat))

\* squared distance of projected candidate i to the query point
CandDist(i) == distance2(loc.sel[1].buildings_proj[i], UserPoint)

\* the roof selection has run on the fetched candidates
Selected == loc.sel # None

\* C1: once select_roof_and_project has returned, the roof is exactly one row,
\* it is one of the projected candidates, no candidate is strictly nearer to
\* the query point, and every candidate before it in collection order is
\* strictly farther (the first minimum is taken).
C1_NearestFirstSelected ==
    Selected =>
        LET roof == loc.sel[1].roof
            proj == loc.sel[1].buildings_proj
        IN  /\ Len(roof) = 1
            /\ proj = project_gdf(loc.buildings[1])
            /\ \E i \in DOMAIN proj :
                 /\ proj[i] = roof[1]
                 /\ \A j \in DOMAIN proj : CandDist(j) >= CandDist(i)
                 /\ \A j \in 1..(i - 1) : CandDist(j) > CandDist(i)

\* a selection among three candidates where the minimum distance is shared by
\* two of them and the selected one is not the first candidate
C1_Witness ==
    /\ Selected
    /\ Len(loc.sel[1].buildings_proj) = 3
    /\ \E i, j \in 1..3 : i < j /\ CandDist(i) = CandDist(j)
                          /\ CandDist(1) > CandDist(j)
                          /\ loc.sel[1].roof[1] = loc.sel[1].buildings_proj[i]

\* smallest squared distance from the query point to a fetched footprint
MinDist2 ==
    LET proj == project_gdf(loc.buildings[1])
        d(i) == distance2(proj[i], UserPoint)
    IN  d(CHOOSE i \in DOMAIN proj : \A j \in DOMAIN proj : d(i) <= d(j))

\* evaluate_address is past the roof selection stage
PastSelection == pc \notin {"geocode", "fetch", "select"}

\* C2: when the nearest fetched footprint is more than 50 m from the query
\* point, the selection fails with BuildingTooFarError: no footprint is
\* selected and no result is returned.
C2_TooFarRejected ==
    (/\ loc.buildings # None /\ loc.buildings[1] # << >>
     /\ PastSelection
     /\ MinDist2 > 50 * 50)
    => /\ loc.sel = None
       /\ raised # None /\ raised[1].type = "BuildingTooFarError"
       /\ results = None

\* the irradiance answer is a failed call, an unparsable body, or a series
\* without any positive value
NasaFailed(resp) ==
    \/ resp.kind \in {"timeout", "bad_json", "no_key"}
    \/ \A i \in DOMAIN resp.values : resp.values[i] <= 0

\* C3: whenever the irradiance call raises, times out, is unparsable or has no
\* positive value, get_solar_irradiance returns 3.8 and raises nothing, so
\* evaluate_address goes on.
C3_FallbackNeverRaises ==
    (nasa_resp # None /\ NasaFailed(nasa_resp[1]))
    => /\ raised = None
       /\ loc.irr_daily = Some(R(38, 10))

\* C4: get_buildings_around never raises: when the footprint service fails or
\* finds nothing, it returns an empty collection.
C4_FetchNeverRaises ==
    (osm_resp # None /\ osm_resp[1].kind = "raise")
    => /\ raised = None
       /\ loc.buildings = Some(<< >>)

\* the fetched collection is empty and the emptiness test has run
EmptyHandled == loc.buildings = Some(<< >>) /\ PastSelection

\* nothing after the footprint fetch has run or produced a value
NoLaterStage ==
    /\ calls = <<"geocode_address", "get_buildings_around">>
    /\ ext = <<"geocoding", "footprint">>
    /\ loc.sel = None /\ loc.area_m2 = None /\ loc.shade = None
    /\ loc.irr_daily = None /\ loc.annual_energy = None /\ loc.econ = None
    /\ nasa_resp = None
    /\ results = None

StageOrder ==
    <<"geocode_address", "get_buildings_around", "select_roof_and_project",
      "compute_shade_factor", "get_solar_irradiance", "estimate_yearly_production",
      "economic_analysis">>

ServiceOrder == <<"geocoding", "footprint", "irradiance">>

DisplayedFields ==
    {"lat", "lon", "roof", "area_m2", "coverage_ratio", "exploitable_m2", "kwp",
     "irr_annual"}

\* C7: every result evaluate_address returns holds every field the success
\* display reads, so rendering it never meets a missing key.
C7_ResultHasDisplayedFields ==
    /\ results # None => DisplayedFields \subseteq DOMAIN results[1]
    /\ ~(crashed # None /\ crashed[1].type = "KeyError")

-----------------------------------------------------------------------------
(* Payback, yield and the display states *)

EconApplied == calc.fn = "economic_analysis"
DashApplied == calc.fn = "dashboard"

\* annual savings as economic_analysis prices them: energy x 0.20 EUR/kWh
EconSavings == RMul(calc.annual_energy_kwh, R(20, 100))

\* C8 (as amended): economic_analysis returns payback None exactly when annual
\* savings are <= 0 or the roof area is <= 0, and otherwise a payback with
\* payback x annual_savings = investment; the dashboard returns None exactly
\* when savings are <= 0 and otherwise payback x savings = cost, at every
\* slider position 0..100.
C8_PaybackDefinedIffViable ==
    /\ EconApplied =>
         LET investment == calc.out[1]
             payback == calc.out[2]
         IN  /\ payback = None <=> (~RPos(EconSavings) \/ ~RPos(calc.area_m2))
             /\ payback # None =>
                  investment # None /\ RMul(payback[1], EconSavings) = investment[1]
    /\ DashApplied =>
         LET o == calc.out
         IN  /\ o.payback_years = None <=> ~RPos(o.savings)
             /\ o.payback_years # None =>
                  RMul(o.payback_years[1], o.savings) = o.cost_avg

\* C8 as stated: in economic_analysis payback is None exactly when annual
\* savings are <= 0, whatever the roof area.
C8_PaybackNoneIffNoSavings ==
    EconApplied =>
        LET investment == calc.out[1]
            payback == calc.out[2]
        IN  /\ payback = None <=> ~RPos(EconSavings)
            /\ payback # None =>
                 investment # None /\ RMul(payback[1], EconSavings) = investment[1]

\* economic_analysis has returned a payback for a fractional area
C8_Witness ==
    /\ EconApplied
    /\ calc.area_m2 = R(25, 2)
    /\ RPos(calc.annual_energy_kwh)
    /\ calc.out[2] # None

\* C9 (as amended): annual energy is the product area x 0.6 x (daily irradiance
\* x 365) x shade factor x orientation factor 0.9 x 0.18 x 0.75, with the
\* factor 365 applied once between the irradiance and the returned energy.
C9_YieldProductWithShade ==
    /\ loc.annual_energy # None =>
         loc.annual_energy[1] =
             RProd(<<loc.area_m2[1], COVERAGE_RATIO, loc.irr_daily[1], RInt(365),
                     loc.shade[1], R(9, 10), PANEL_EFFICIENCY, PERFORMANCE_RATIO>>)
    /\ results # None =>
         results[1].annual_energy_kwh =
             RProd(<<results[1].area_m2, COVERAGE_RATIO,
                     results[1].irradiance_daily_kwh_m2, RInt(365),
                     results[1].shade_factor, R(9, 10), PANEL_EFFICIENCY,
                     PERFORMANCE_RATIO>>)

\* C9 as stated: annual energy is area x coverage x (daily irradiance x 365) x
\* efficiency x performance ratio and nothing else.
C9_YieldPureProduct ==
    loc.annual_energy # None =>
        loc.annual_energy[1] =
            RProd(<<loc.area_m2[1], COVERAGE_RATIO, loc.irr_daily[1], RInt(365),
                    PANEL_EFFICIENCY, PERFORMANCE_RATIO>>)

\* a returned result for a shaded roof and a measured irradiance series
C9_Witness ==
    /\ results # None
    /\ results[1].shade_factor = R(9, 10)
    /\ nasa_resp[1].kind = "series" /\ Len(nasa_resp[1].values) = 2
    /\ RPos(results[1].annual_energy_kwh)

\* evaluate_address is running inside the click handler
Running ==
    pc \in {"geocode", "fetch", "select", "shade", "irradiance", "yield",
            "economics", "return", "except"}

-----------------------------------------------------------------------------
(* Payback classification *)

\* the label the stated breakpoints give a payback p = n/d years
LabelOfPayback(p) ==
    IF p.n < 8 * p.d THEN "Tres interessant"
    ELSE IF p.n <= 12 * p.d THEN "Interessant"
    ELSE IF p.n <= 20 * p.d THEN "Acceptable"
    ELSE "Peu interessant financierement"

PaybackLabels ==
    {"Tres interessant", "Interessant", "Acceptable", "Peu interessant financierement"}

\* C11 (as amended): every defined payback gets exactly the label of its range
\* (< 8 highly attractive, 8..12 attractive, above 12 up to 20 acceptable,
\* above 20 unattractive); an undefined payback, which economic_analysis
\* returns exactly when energy <= 0 or area <= 0, gets the fifth label
\* "Non viable"; no other label is returned.
C11_LabelPartition ==
    EconApplied =>
        LET payback == calc.out[2]
            label == calc.out[3]
        IN  /\ payback # None => label = LabelOfPayback(payback[1])
            /\ payback = None => label = "Non viable"
            /\ label \in PaybackLabels \cup {"Non viable"}

\* C11 as stated: an undefined payback is labelled unattractive and only the
\* four labels are ever returned.
C11_FourLabelsOnly ==
    EconApplied =>
        LET payback == calc.out[2]
            label == calc.out[3]
        IN  /\ payback # None => label = LabelOfPayback(payback[1])
            /\ payback = None => label = "Peu interessant financierement"
            /\ label \in PaybackLabels

\* a payback of exactly 8 years has been classified
C11_Witness ==
    /\ EconApplied
    /\ calc.out[2] = Some(R(8, 1))
    /\ calc.out[3] = "Interessant"

-----------------------------------------------------------------------------
(* Shade factor *)

ShadeApplied == calc.fn = "compute_shade_factor"

\* the footprints other than the roof that reach into the 40 m buffer
OtherNeighbours(buildings_proj, roof) ==
    { i \in DOMAIN buildings_proj :
        /\ buildings_proj[i].id # roof[1].id
        /\ distance2(buildings_proj[i], roof[1]) <= 40 * 40 }

RECURSIVE AreaOfRows(_, _)
AreaOfRows(buildings_proj, I) ==
    IF I = {} THEN 0
    ELSE LET i == CHOOSE k \in I : TRUE
         IN  area(buildings_proj[i]) + AreaOfRows(buildings_proj, I \ {i})

\* built-up density: area of the other neighbours over the area of the buffer
Density(buildings_proj, roof) ==
    R(Max(AreaOfRows(buildings_proj, OtherNeighbours(buildings_proj, roof)), 0),
      buffer_area(roof[1], 40))

\* the step function of the density
ShadeStep(ratio) ==
    IF ratio.n * 10 < ratio.d THEN R(1, 1)
    ELSE IF ratio.n * 4 < ratio.d THEN R(9, 10)
    ELSE IF ratio.n * 5 < 2 * ratio.d THEN R(8, 10)
    ELSE R(65, 100)

\* C12: the shade factor is the step function of the built-up density of the
\* other footprints in the 40 m buffer (< 0.1 gives 1.0, < 0.25 gives 0.9,
\* < 0.4 gives 0.8, otherwise 0.65); it lies in [0.65, 1.0], never rises when
\* the density rises, and is 1.0 for a roof without neighbours.
C12_ShadeStepMonotone ==
    ShadeApplied =>
        LET f == calc.out
            rho == Density(calc.buildings_proj, calc.roof)
        IN  /\ f = ShadeStep(rho)
            /\ RLeq(R(65, 100), f) /\ RLeq(f, R(1, 1))
            /\ OtherNeighbours(calc.buildings_proj, calc.roof) = {} => f = R(1, 1)
            /\ \A in \in ShadeInputs :
                 RLeq(rho, Density(in.buildings_proj, in.roof))
                 => RLeq(compute_shade_factor(in.buildings_proj, in.roof, 40), f)

\* a roof whose surroundings have a density of exactly 0.25
C12_Witness ==
    /\ ShadeApplied
    /\ Density(calc.buildings_proj, calc.roof) = R(1, 4)
    /\ calc.out = R(8, 10)

====
